---- MODULE Spec2Model ----
(***************************************************************************)
(* Tenant-aware request routing of fastapi-clean-arch-starter:             *)
(*   TenantContext (a ContextVar), TenantMiddleware.dispatch, get_db and   *)
(*   the schema administration functions of shared/infra/database.py,      *)
(*   running against a PostgreSQL engine behind a SQLAlchemy queue pool.   *)
(*                                                                         *)
(* Strings are sequences of one-character strings, so that str methods     *)
(* (replace, isalnum, startswith) and SQL identifier handling are          *)
(* computed character by character.                                        *)
(***************************************************************************)
EXTENDS Integers, Sequences, FiniteSets, TLC

\* ------------------------------------------------------------------ bounds
NumConns == 2       \* connections the pool may create
MaxIdLen == 2       \* identifiers of every length up to this are enumerated
MaxAccounts == 1    \* account rows a namespace may hold

\* ------------------------------------------------------- program constants
MaxTenantIdLen == 50
HTTP_200_OK == 200
HTTP_201_CREATED == 201
HTTP_400_BAD_REQUEST == 400
HTTP_404_NOT_FOUND == 404
HTTP_500_INTERNAL_SERVER_ERROR == 500

\* ----------------------------------------------------------------- strings
\* Python's None; a one-element tuple so that it compares with strings.
None == <<"None">>

\* Characters of the model: ASCII lower/upper letter, ASCII digit, underscore,
\* a non-ASCII letter (U+00E9) and a punctuation character.
AsciiLetters == {"a", "A", "b", "e", "n", "t"}
AsciiDigits == {"7"}
UnicodeLetters == {"U+00E9"}

\* str.isalnum(): non-empty and every character is alphanumeric by the
\* Unicode database (letters and digits of any script).
IsAlnum(s) ==
    /\ Len(s) > 0
    /\ \A i \in 1..Len(s) : s[i] \in AsciiLetters \cup AsciiDigits \cup UnicodeLetters

\* str.replace("_", "")
StripUnderscores(s) == SelectSeq(s, LAMBDA c : c # "_")

\* str.startswith(prefix)
StartsWith(s, prefix) ==
    /\ Len(s) >= Len(prefix)
    /\ SubSeq(s, 1, Len(prefix)) = prefix

\* `not x` for an Optional[str]: None and the empty string are falsy.
Falsy(x) == x = None \/ x = <<>>

\* tenant_id.replace("_", "").isalnum()
IsValidTenantFormat(tid) == IsAlnum(StripUnderscores(tid))

\* ------------------------------------------------------------------- paths
DocsPrefix == <<"/", "d", "o", "c", "s">>
RedocPrefix == <<"/", "r", "e", "d", "o", "c">>
OpenapiPrefix == <<"/", "o", "p", "e", "n", "a", "p", "i", ".", "j", "s", "o", "n">>
HealthPrefix == <<"/", "h", "e", "a", "l", "t", "h">>
MetricsPrefix == <<"/", "m", "e", "t", "r", "i", "c", "s">>
EXCLUDED_PATHS == {DocsPrefix, RedocPrefix, OpenapiPrefix, HealthPrefix, MetricsPrefix}

\* An allow-list matched by equality instead of by prefix.
IsExcludedExact(p) == p \in EXCLUDED_PATHS

\* any(request.url.path.startswith(path) for path in self.EXCLUDED_PATHS)
IsExcluded(p) == \E prefix \in EXCLUDED_PATHS : StartsWith(p, prefix)

\* Request paths of the model: the account routes under API_V1_STR and a
\* health probe.
AccountPath == <<"/", "a", "p", "i", "/", "v", "1", "/", "a", "c", "c", "o", "u", "n", "t">>
HealthPath == <<"/", "h", "e", "a", "l", "t", "h">>
Paths == {AccountPath, HealthPath}

\* settings.API_V1_STR and the URLs create_application gives the application:
\* openapi_url, docs_url and redoc_url are f"{settings.API_V1_STR}/...".
API_V1_STR == <<"/", "a", "p", "i", "/", "v", "1">>
OpenapiUrl == API_V1_STR \o <<"/", "o", "p", "e", "n", "a", "p", "i", ".", "j", "s", "o", "n">>
DocsUrl == API_V1_STR \o <<"/", "d", "o", "c", "s">>
RedocUrl == API_V1_STR \o <<"/", "r", "e", "d", "o", "c">>
ServedDocsUrls == {OpenapiUrl, DocsUrl, RedocUrl}

\* Paths under the allow-listed prefixes: each prefix itself and, under
\* /docs, the OAuth2 redirect page.
DocsRedirectPath == DocsPrefix \o <<"/", "o", "a", "u", "t", "h", "2", "-", "r", "e", "d", "i", "r", "e", "c", "t">>
AllowListedPaths == EXCLUDED_PATHS \cup {DocsRedirectPath}

\* The root path, which test_read_main requests.
RootPath == <<"/">>

\* Every request path of the model.
AllPaths == Paths \cup ServedDocsUrls \cup AllowListedPaths \cup {RootPath}

\* ------------------------------------------------------- storage namespaces
Public == <<"p", "u", "b", "l", "i", "c">>
TenantPrefix == <<"t", "e", "n", "a", "n", "t", "_">>

\* f"tenant_{tenant_id}"
SchemaName(tid) == TenantPrefix \o tid

\* The schema name is interpolated unquoted into the SQL text: PostgreSQL
\* folds an unquoted identifier to lower case.
FoldChar(c) == IF c = "A" THEN "a" ELSE c
SqlIdent(s) == [i \in 1..Len(s) |-> FoldChar(s[i])]

\* The namespace the engine understands by f"... {schema_name} ..."
NamespaceOf(tid) == SqlIdent(SchemaName(tid))

\* The search_path of a fresh connection, and the one after
\* "SET search_path TO {schema_name}, public".
DefaultPath == <<Public>>
TenantPath(tid) == <<NamespaceOf(tid), Public>>

\* ------------------------------------------------------------ input domains
\* Characters the enumerated identifiers are built from.
Alphabet == {"a", "A", "7", "U+00E9", "_", "-"}

RECURSIVE StringsOfLen(_)
StringsOfLen(n) ==
    IF n = 0 THEN {<<>>}
    ELSE {Append(s, c) : s \in StringsOfLen(n - 1), c \in Alphabet}

Repeat(c, n) == [i \in 1..n |-> c]

\* Every identifier over Alphabet of length 1..MaxIdLen, and two long ones on
\* either side of the documented length limit.
WideIds ==
    UNION {StringsOfLen(n) : n \in 1..MaxIdLen}
        \cup {Repeat("a", MaxTenantIdLen), Repeat("a", MaxTenantIdLen + 1)}

\* Identifiers of the concurrent specification and of the administration calls.
SmallIds == {<<"a">>, <<"A">>, <<"b">>}
AdminIds == {<<"a">>, <<"A">>, <<"-">>}

\* The requests in flight: isolation is a property of any two of them.
Req == {1, 2}
Conn == 1..NumConns

\* --------------------------------------------------------------------- state
VARIABLES
    path,       \* request.url.path of each request
    hdr,        \* request.headers.get("x-tenant-id") of each request (None: absent)
    qry,        \* request.query_params.get("tenantId") of each request
    pc,         \* where each request is: absent, new, handler, finally, rejected, done
    ctx,        \* _tenant_id_context in the context of the task running dispatch
    hctx,       \* _tenant_id_context in the context of the task call_next starts
    status,     \* the response status of each request ({} while there is none)
    err,        \* the exception that ended the downstream handler, "none" if none
    sess,       \* the get_db session of each request: none, open, closed
    sessTenant, \* tenant_id read by get_db when the session was created
    sessConn,   \* the pooled connection the session holds (0: none)
    txnBase,    \* search_path of that connection when its transaction began
    connPath,   \* search_path setting of each pooled connection
    idle,       \* the pool's queue of idle connections, oldest first
    created,    \* number of connections the pool has created
    schemata,   \* tenant namespaces in the engine's catalog
    tables,     \* namespaces that hold the application table set
    stmts,      \* the last statement run through the session of a running handler
    setCalls,   \* calls of TenantContext.set_tenant_id made by each request's dispatch
    clearCalls, \* calls of TenantContext.clear_tenant_id made by each request's dispatch
    admin,      \* the last schema administration call and what its caller got back
    started,    \* the inner middlewares whose processing of each request has begun
    returned,   \* the inner middlewares that have handed each request's outcome back
    rows,       \* the account rows of every namespace
    cache,      \* the key/value store behind cache_manager
    got         \* what the repository call of each request returned

vars == <<path, hdr, qry, pc, ctx, hctx, status, err, sess, sessTenant, sessConn,
          txnBase, connPath, idle, created, schemata, tables, stmts, setCalls,
          clearCalls, admin, started, returned, rows, cache, got>>

reqInputs == <<path, hdr, qry>>
reqVars == <<pc, ctx, hctx, status, err>>
sessVars == <<sess, sessTenant, sessConn, txnBase>>
poolVars == <<connPath, idle, created>>
catalogVars == <<schemata, tables>>
callVars == <<setCalls, clearCalls>>
layerVars == <<started, returned>>
accountVars == <<rows, cache, got>>
requestVars == <<reqInputs, reqVars, sessVars, stmts, callVars, layerVars, accountVars>>

\* ------------------------------------------------------------ TenantContext
\* A store that is one variable shared by every task.
CtxSetShared(c, r, tid) == [x \in DOMAIN c |-> tid]

\* _tenant_id_context.set(tenant_id) in the context of task r
CtxSet(c, r, tid) == [c EXCEPT ![r] = tid]

\* _tenant_id_context.set(None) in the context of task r
CtxClear(c, r) == [c EXCEPT ![r] = None]

\* _tenant_id_context.get() in the context of task r
CtxGet(c, r) == c[r]

\* ----------------------------------------------------------------- the pool
\* QueuePool: an idle connection is taken from the queue, oldest first; a new
\* one is created while fewer than the limit exist; otherwise the caller waits.
CanCheckout == idle # <<>> \/ created < NumConns
CheckoutConn == IF idle # <<>> THEN Head(idle) ELSE created + 1
IdleAfterCheckout == IF idle # <<>> THEN Tail(idle) ELSE idle
CreatedAfterCheckout == IF idle # <<>> THEN created ELSE created + 1

\* A statement resolves unqualified table names in the first namespace of the
\* search_path that exists and holds the table.
RECURSIVE Resolve(_)
Resolve(sp) ==
    IF sp = <<>> THEN <<>>
    ELSE IF Head(sp) \in tables /\ (Head(sp) = Public \/ Head(sp) \in schemata)
         THEN Head(sp)
         ELSE Resolve(Tail(sp))

\* --------------------------------------------------- administration callers
\* What the caller of an administration function holds once the call is over:
\* the call, the exception it raised ("none": it returned), the value it
\* returned, and the call made before it.
NoCall ==
    [op |-> "none", tid |-> None, cascade |-> FALSE, raised |-> "none", result |-> {},
     prevOp |-> "none", prevTid |-> None, prevRaised |-> "none"]

Outcome(op, tid, cascade, raised, result) ==
    [op |-> op, tid |-> tid, cascade |-> cascade, raised |-> raised, result |-> result,
     prevOp |-> admin.op, prevTid |-> admin.tid, prevRaised |-> admin.raised]

\* ------------------------------------------------------------------ accounts
\* An account object: its primary key, its email and the tenant whose request
\* created it. NoAccount stands for Python's None.
NoAccount == [id |-> 0, email |-> <<>>, owner |-> None]
AccountIds == 1..MaxAccounts
Emails == {<<"e">>}

\* str(id)
IdStr(id) == IF id = 1 THEN <<"1">> ELSE IF id = 2 THEN <<"2">> ELSE <<"3">>

\* cache_prefix = "account:"; f"{self.cache_prefix}{id}" and
\* f"{self.cache_prefix}email:{email}"
CachePrefix == <<"a", "c", "c", "o", "u", "n", "t", ":">>
KeyOfId(id) == CachePrefix \o IdStr(id)
KeyOfEmail(email) == CachePrefix \o <<"e", "m", "a", "i", "l", ":">> \o email
CacheKeys == {KeyOfId(id) : id \in AccountIds} \cup {KeyOfEmail(e) : e \in Emails}

\* What a repository call gave its caller: nothing yet, None, an account, or
\* an exception.
NotCalled == [kind |-> "pending", acct |-> NoAccount]
Returned(a) == [kind |-> IF a = NoAccount THEN "none" ELSE "account", acct |-> a]
Raised == [kind |-> "raised", acct |-> NoAccount]

\* ---------------------------------------------------------------------- Init
\* The state after application startup: init_db has created the table set in
\* the public namespace, no tenant namespace exists, the pool is empty and no
\* context holds a tenant.
InitRuntime ==
    /\ ctx = [r \in Req |-> None]
    /\ hctx = [r \in Req |-> None]
    /\ status = [r \in Req |-> {}]
    /\ err = [r \in Req |-> "none"]
    /\ sess = [r \in Req |-> "none"]
    /\ sessTenant = [r \in Req |-> None]
    /\ sessConn = [r \in Req |-> 0]
    /\ txnBase = [r \in Req |-> <<>>]
    /\ connPath = [c \in Conn |-> DefaultPath]
    /\ idle = <<>>
    /\ created = 0
    /\ stmts = {}
    /\ setCalls = [r \in Req |-> 0]
    /\ clearCalls = [r \in Req |-> 0]
    /\ admin = NoCall
    /\ started = [r \in Req |-> {}]
    /\ returned = [r \in Req |-> {}]
    /\ rows = {}
    /\ cache = [k \in CacheKeys |-> NoAccount]
    /\ got = [r \in Req |-> NotCalled]

InitState ==
    /\ InitRuntime
    /\ schemata = {}
    /\ tables = {Public}

\* Concurrent requests, each with its own header, over a small identifier set.
Init ==
    /\ InitState
    /\ pc = [r \in Req |-> "new"]
    /\ path \in [Req -> Paths]
    /\ hdr \in [Req -> SmallIds]
    /\ qry = [r \in Req |-> None]

\* One request over the wide identifier set: one of header and query ranges
\* over every identifier, the other over a few values.
FewOpt == {None, <<>>, <<"b">>}
InitWide ==
    /\ InitState
    /\ pc = [r \in Req |-> IF r = 1 THEN "new" ELSE "absent"]
    /\ \E p \in Paths, h \in WideIds \cup FewOpt, q \in WideIds \cup FewOpt :
        /\ h \in FewOpt \/ q \in FewOpt
        /\ path = [r \in Req |-> IF r = 1 THEN p ELSE HealthPath]
        /\ hdr = [r \in Req |-> IF r = 1 THEN h ELSE None]
        /\ qry = [r \in Req |-> IF r = 1 THEN q ELSE None]

\* One request to any path of the model, with a header and a query parameter
\* that are absent, empty or a well-formed identifier.
InitPaths ==
    /\ InitState
    /\ pc = [r \in Req |-> IF r = 1 THEN "new" ELSE "absent"]
    /\ \E p \in AllPaths, h \in FewOpt, q \in FewOpt :
        /\ path = [r \in Req |-> IF r = 1 THEN p ELSE HealthPath]
        /\ hdr = [r \in Req |-> IF r = 1 THEN h ELSE None]
        /\ qry = [r \in Req |-> IF r = 1 THEN q ELSE None]

\* ---------------------------------------------------------- TenantMiddleware
\* A middleware that falls back to a default tenant.
TenantIdOfDefault(h, q) == IF Falsy(h) THEN (IF Falsy(q) THEN <<"a">> ELSE q) ELSE h

\* A middleware that reads the query parameter first.
TenantIdOfQueryFirst(h, q) == IF Falsy(q) THEN h ELSE q

\* tenant_id = request.headers.get(TENANT_HEADER); if not tenant_id:
\* tenant_id = request.query_params.get(TENANT_QUERY_PARAM)
TenantIdOf(h, q) == IF Falsy(h) THEN q ELSE h

\* A clear placed after the call instead of in a finally clause.
ClearsOnlyOnReturn(e) == e = "none"

\* The finally clause of dispatch runs whatever ended the downstream call.
ClearsContextOn(e) == TRUE

\* dispatch up to `await call_next(request)`. call_next starts the downstream
\* application in a task of its own, whose context is a copy of the current one.
Dispatch(r) ==
    /\ pc[r] = "new"
    /\ LET tid == TenantIdOf(hdr[r], qry[r]) IN
        IF IsExcluded(path[r]) THEN
            /\ pc' = [pc EXCEPT ![r] = "handler"]
            /\ hctx' = [hctx EXCEPT ![r] = CtxGet(ctx, r)]
            /\ UNCHANGED <<ctx, status, setCalls>>
        ELSE IF Falsy(tid) \/ ~IsValidTenantFormat(tid) THEN
            /\ pc' = [pc EXCEPT ![r] = "rejected"]
            /\ status' = [status EXCEPT ![r] = {HTTP_400_BAD_REQUEST}]
            /\ UNCHANGED <<ctx, hctx, setCalls>>
        ELSE
            /\ ctx' = CtxSet(ctx, r, tid)
            /\ setCalls' = [setCalls EXCEPT ![r] = @ + 1]
            /\ hctx' = [hctx EXCEPT ![r] = CtxGet(ctx', r)]
            /\ pc' = [pc EXCEPT ![r] = "handler"]
            /\ UNCHANGED status
    /\ UNCHANGED <<reqInputs, layerVars, accountVars, err, sessVars, poolVars, catalogVars, stmts, clearCalls, admin>>

\* dispatch after call_next has returned, raised or been cancelled: the finally
\* clause, then the response. An exception leaving dispatch is answered 500 by
\* the server-error layer; a cancelled request gets no response.
DispatchFinally(r) ==
    /\ pc[r] = "finally"
    /\ IF ~IsExcluded(path[r]) /\ ClearsContextOn(err[r])
       THEN /\ ctx' = CtxClear(ctx, r)
            /\ clearCalls' = [clearCalls EXCEPT ![r] = @ + 1]
       ELSE UNCHANGED <<ctx, clearCalls>>
    /\ status' = [status EXCEPT ![r] =
                    IF err[r] = "none" THEN @
                    ELSE IF err[r] = "Cancelled" THEN {}
                    ELSE {HTTP_500_INTERNAL_SERVER_ERROR}]
    /\ pc' = [pc EXCEPT ![r] = "done"]
    /\ UNCHANGED <<reqInputs, layerVars, accountVars, hctx, err, sessVars, poolVars, catalogVars, stmts, setCalls, admin>>

\* --------------------------------------------------------------------- get_db
\* A get_db without the guard.
NoTenantUnchecked(tid) == FALSE

\* `if not tenant_id: raise ValueError(...)`
NoTenant(tid) == Falsy(tid)

\* get_db with no tenant in the context: ValueError before the session exists.
GetDbMissingTenant(r) ==
    /\ pc[r] = "handler"
    /\ sess[r] = "none"
    /\ NoTenant(CtxGet(hctx, r))
    /\ err' = [err EXCEPT ![r] = "ValueError"]
    /\ pc' = [pc EXCEPT ![r] = "finally"]
    /\ UNCHANGED <<reqInputs, layerVars, accountVars, ctx, hctx, status, sessVars, poolVars, catalogVars, stmts,
                   callVars, admin>>

\* get_db up to `yield session`: the session is created, its first statement
\* checks a connection out of the pool, begins a transaction and sets the
\* search_path. PostgreSQL accepts a search_path that names a namespace which
\* does not exist.
GetDbBind(r) ==
    /\ pc[r] = "handler"
    /\ sess[r] = "none"
    /\ ~NoTenant(CtxGet(hctx, r))
    /\ CanCheckout
    /\ LET c == CheckoutConn
           tid == CtxGet(hctx, r) IN
        /\ sess' = [sess EXCEPT ![r] = "open"]
        /\ sessTenant' = [sessTenant EXCEPT ![r] = tid]
        /\ sessConn' = [sessConn EXCEPT ![r] = c]
        /\ txnBase' = [txnBase EXCEPT ![r] = connPath[c]]
        /\ connPath' = [connPath EXCEPT ![c] = TenantPath(tid)]
        /\ idle' = IdleAfterCheckout
        /\ created' = CreatedAfterCheckout
    /\ UNCHANGED <<reqInputs, layerVars, accountVars, reqVars, catalogVars, stmts, callVars, admin>>

\* get_db when the engine fails the first statement (connection lost): the
\* finally clause closes the session, the connection goes back to the pool
\* and the error leaves the dependency.
GetDbBindFails(r) ==
    /\ pc[r] = "handler"
    /\ sess[r] = "none"
    /\ ~NoTenant(CtxGet(hctx, r))
    /\ CanCheckout
    /\ sess' = [sess EXCEPT ![r] = "closed"]
    /\ sessTenant' = [sessTenant EXCEPT ![r] = CtxGet(hctx, r)]
    /\ idle' = Append(IdleAfterCheckout, CheckoutConn)
    /\ created' = CreatedAfterCheckout
    /\ err' = [err EXCEPT ![r] = "StorageEngineError"]
    /\ pc' = [pc EXCEPT ![r] = "finally"]
    /\ UNCHANGED <<reqInputs, layerVars, accountVars, ctx, hctx, status, sessConn, txnBase, connPath,
                   catalogVars, stmts, callVars, admin>>

\* ---------------------------------------------------- the downstream handler
\* A statement through the session (a query, or db.refresh after db.commit).
\* A session that holds no connection checks one out and begins a transaction.
Execute(r) ==
    /\ pc[r] = "handler"
    /\ sess[r] = "open"
    /\ sessConn[r] # 0 \/ CanCheckout
    /\ LET c == IF sessConn[r] # 0 THEN sessConn[r] ELSE CheckoutConn IN
        /\ stmts' = {[req |-> r, sp |-> connPath[c], ns |-> Resolve(connPath[c])]}
        /\ IF sessConn[r] # 0
           THEN UNCHANGED <<sessConn, txnBase, idle, created>>
           ELSE /\ sessConn' = [sessConn EXCEPT ![r] = c]
                /\ txnBase' = [txnBase EXCEPT ![r] = connPath[c]]
                /\ idle' = IdleAfterCheckout
                /\ created' = CreatedAfterCheckout
    /\ UNCHANGED <<reqInputs, layerVars, accountVars, reqVars, sess, sessTenant, connPath, catalogVars, callVars, admin>>

\* db.commit(): the transaction commits, so the connection keeps its
\* search_path, and the session releases the connection to the pool.
Commit(r) ==
    /\ pc[r] = "handler"
    /\ sess[r] = "open"
    /\ sessConn[r] # 0
    /\ idle' = Append(idle, sessConn[r])
    /\ sessConn' = [sessConn EXCEPT ![r] = 0]
    /\ txnBase' = [txnBase EXCEPT ![r] = <<>>]
    /\ UNCHANGED <<reqInputs, layerVars, accountVars, reqVars, sess, sessTenant, connPath, created,
                   catalogVars, stmts, callVars, admin>>

\* How the downstream handler ends: a response (its status), an exception or
\* a cancellation.
Endings ==
    {[e |-> "none", st |-> {HTTP_200_OK}], [e |-> "none", st |-> {HTTP_404_NOT_FOUND}],
     [e |-> "HandlerError", st |-> {}], [e |-> "Cancelled", st |-> {}]}

\* A session.close() placed after the yield instead of in a finally clause.
ClosesOnlyOnReturn(e) == e = "none"

\* get_db's `finally: await session.close()` runs whatever ended the handler.
ClosesSessionOn(e) == TRUE

\* The handler ends; get_db's finally clause closes the session: an open
\* transaction is rolled back, which also undoes a SET made inside it, and
\* the connection returns to the pool.
HandlerEnd(r) ==
    /\ pc[r] = "handler"
    /\ \E end \in Endings :
        /\ err' = [err EXCEPT ![r] = end.e]
        /\ status' = [status EXCEPT ![r] = end.st]
        /\ IF sess[r] = "open" /\ ClosesSessionOn(end.e)
           THEN /\ sess' = [sess EXCEPT ![r] = "closed"]
                /\ IF sessConn[r] # 0
                   THEN /\ connPath' = [connPath EXCEPT ![sessConn[r]] = txnBase[r]]
                        /\ idle' = Append(idle, sessConn[r])
                        /\ sessConn' = [sessConn EXCEPT ![r] = 0]
                        /\ txnBase' = [txnBase EXCEPT ![r] = <<>>]
                   ELSE UNCHANGED <<connPath, idle, sessConn, txnBase>>
           ELSE UNCHANGED <<sess, connPath, idle, sessConn, txnBase>>
    /\ pc' = [pc EXCEPT ![r] = "finally"]
    /\ stmts' = {s \in stmts : s.req # r}
    /\ UNCHANGED <<reqInputs, layerVars, accountVars, ctx, hctx, sessTenant, created, catalogVars, callVars, admin>>

\* ------------------------------------------------------ create_tenant_schema
\* Base.metadata.create_all creates a table only where none of that name is
\* visible through the search_path, here <<schema, public>>.
TablesAfterCreateAll(ns, existing) ==
    IF \E n \in {ns, Public} : n \in tables /\ (n = Public \/ n \in existing)
    THEN tables
    ELSE tables \cup {ns}

\* create_tenant_schema(tenant_id), in one transaction on a pooled connection
\* that commits on exit, so the connection keeps the search_path set in it.
\* A create_tenant_schema that runs its statements without the format check.
CreateTenantSchemaUnvalidated(tid) ==
    /\ CanCheckout
    /\ schemata' = schemata \cup {NamespaceOf(tid)}
    /\ tables' = TablesAfterCreateAll(NamespaceOf(tid), schemata')
    /\ connPath' = [connPath EXCEPT ![CheckoutConn] = TenantPath(tid)]
    /\ idle' = Append(IdleAfterCheckout, CheckoutConn)
    /\ created' = CreatedAfterCheckout

\* `if not tenant_id.replace("_", "").isalnum(): raise ValueError(...)` comes
\* first and leaves everything as it was. The function touches the pool and
\* the engine only; what else a step leaves unchanged is its caller's to say.
CreateTenantSchema(tid) ==
    IF ~IsValidTenantFormat(tid) THEN UNCHANGED <<poolVars, catalogVars>>
    ELSE
        /\ CanCheckout
        /\ schemata' = schemata \cup {NamespaceOf(tid)}
        /\ tables' = TablesAfterCreateAll(NamespaceOf(tid), schemata')
        /\ connPath' = [connPath EXCEPT ![CheckoutConn] = TenantPath(tid)]
        /\ idle' = Append(IdleAfterCheckout, CheckoutConn)
        /\ created' = CreatedAfterCheckout

\* The exception create_tenant_schema(tenant_id) raises when the engine runs
\* every statement.
CreateRaises(tid) == IF IsValidTenantFormat(tid) THEN "none" ELSE "ValueError"

\* A create_tenant_schema whose statements are committed one by one: the
\* namespace stays when a later statement fails.
CreateTenantSchemaFailsNoRollback(tid) ==
    /\ IsValidTenantFormat(tid)
    /\ CanCheckout
    /\ schemata' = schemata \cup {NamespaceOf(tid)}
    /\ idle' = Append(IdleAfterCheckout, CheckoutConn)
    /\ created' = CreatedAfterCheckout
    /\ UNCHANGED <<tables, connPath>>

\* create_tenant_schema(tenant_id) when the engine fails one of its
\* statements (CREATE SCHEMA, SET search_path or a CREATE TABLE of
\* create_all): the exception leaves `async with engine.begin()`, which rolls
\* the transaction back - DDL and SET included - and returns the connection.
CreateTenantSchemaFails(tid) ==
    /\ IsValidTenantFormat(tid)
    /\ CanCheckout
    /\ idle' = Append(IdleAfterCheckout, CheckoutConn)
    /\ created' = CreatedAfterCheckout
    /\ UNCHANGED <<catalogVars, connPath>>

\* -------------------------------------------------------- drop_tenant_schema
\* A drop that sends CASCADE whatever the cascade argument is.
DropRaisesAlwaysCascade(tid, cascade) ==
    IF ~IsValidTenantFormat(tid) THEN "ValueError" ELSE "none"

\* A drop without IF EXISTS: the engine refuses a namespace that is not there.
DropRaisesWhenMissing(tid, cascade) ==
    IF ~IsValidTenantFormat(tid) THEN "ValueError"
    ELSE IF NamespaceOf(tid) \notin schemata THEN "StorageEngineError"
    ELSE IF ~cascade /\ NamespaceOf(tid) \in tables THEN "StorageEngineError"
    ELSE "none"

\* DROP SCHEMA ... RESTRICT refuses a namespace that holds objects; with IF
\* EXISTS a namespace that does not exist is skipped with a notice.
DropRaises(tid, cascade) ==
    IF ~IsValidTenantFormat(tid) THEN "ValueError"
    ELSE IF ~cascade /\ NamespaceOf(tid) \in schemata /\ NamespaceOf(tid) \in tables
         THEN "StorageEngineError"
         ELSE "none"

\* drop_tenant_schema(tenant_id, cascade), in one transaction on a pooled
\* connection: committed when the statement succeeds, rolled back when the
\* engine refuses it.
DropTenantSchema(tid, cascade) ==
    IF ~IsValidTenantFormat(tid) THEN UNCHANGED <<poolVars, catalogVars>>
    ELSE
        /\ CanCheckout
        /\ IF DropRaises(tid, cascade) = "none"
           THEN /\ schemata' = schemata \ {NamespaceOf(tid)}
                /\ tables' = tables \ {NamespaceOf(tid)}
           ELSE UNCHANGED catalogVars
        /\ idle' = Append(IdleAfterCheckout, CheckoutConn)
        /\ created' = CreatedAfterCheckout
        /\ UNCHANGED connPath

\* ------------------------------------------------------- list_tenant_schemas
\* The namespaces information_schema.schemata shows: the tenant namespaces
\* and public.
CatalogNamespaces == schemata \cup {Public}

\* s LIKE pattern: "_" stands for any one character, "%" for any sequence.
RECURSIVE Like(_, _)
Like(s, pattern) ==
    IF pattern = <<>> THEN s = <<>>
    ELSE IF Head(pattern) = "%"
         THEN Like(s, Tail(pattern)) \/ (s # <<>> /\ Like(Tail(s), pattern))
         ELSE /\ s # <<>>
              /\ Head(pattern) = "_" \/ Head(pattern) = Head(s)
              /\ Like(Tail(s), Tail(pattern))

\* 'tenant_%'
LikePattern == TenantPrefix \o <<"%">>

\* str.replace(old, ""): every occurrence of old is removed, left to right.
RECURSIVE Remove(_, _)
Remove(s, old) ==
    IF Len(s) < Len(old) THEN s
    ELSE IF StartsWith(s, old) THEN Remove(SubSeq(s, Len(old) + 1, Len(s)), old)
         ELSE <<Head(s)>> \o Remove(Tail(s), old)

\* [schema[0].replace("tenant_", "") for schema in schemas], as a set: the
\* query has no ORDER BY.
ListResult ==
    {Remove(ns, TenantPrefix) : ns \in {n \in CatalogNamespaces : Like(n, LikePattern)}}

\* list_tenant_schemas(), in one transaction on a pooled connection.
ListTenantSchemas ==
    /\ CanCheckout
    /\ idle' = Append(IdleAfterCheckout, CheckoutConn)
    /\ created' = CreatedAfterCheckout
    /\ UNCHANGED <<connPath, catalogVars>>

\* ------------------------------------------------- calls and their outcomes
\* Identifiers of the administration calls: two that differ in case only, one
\* more, one that itself contains "tenant_", and one that is not well-formed.
CatalogIds == {<<"a">>, <<"A">>, <<"b">>, TenantPrefix \o <<"a">>, <<"-">>}

\* await create_tenant_schema(tid)
AdminCreate(tid) ==
    /\ CreateTenantSchema(tid)
    /\ admin' = Outcome("create", tid, FALSE, CreateRaises(tid), {})
    /\ UNCHANGED requestVars

\* await create_tenant_schema(tid), the engine failing
AdminCreateFails(tid) ==
    /\ CreateTenantSchemaFails(tid)
    /\ admin' = Outcome("create", tid, FALSE, "StorageEngineError", {})
    /\ UNCHANGED requestVars

\* await drop_tenant_schema(tid, cascade)
AdminDrop(tid, cascade) ==
    /\ DropTenantSchema(tid, cascade)
    /\ admin' = Outcome("drop", tid, cascade, DropRaises(tid, cascade), {})
    /\ UNCHANGED requestVars

\* await list_tenant_schemas()
AdminList ==
    /\ ListTenantSchemas
    /\ admin' = Outcome("list", None, FALSE, "none", ListResult)
    /\ UNCHANGED requestVars

\* ------------------------------------------------------- the tenant routes
\* api_router mounts the tenant router under API_V1_STR + "/tenants": POST and
\* GET on "/", DELETE on "/{tenant_id}".
TenantsPath == API_V1_STR \o <<"/", "t", "e", "n", "a", "n", "t", "s", "/">>
TenantItemPath(tid) == TenantsPath \o tid
PathParam(p) == SubSeq(p, Len(TenantsPath) + 1, Len(p))

\* TenantCreate.tenant_id: pattern ^[a-zA-Z0-9_]+$, min_length 1, max_length 50.
\* A body that does not validate is answered by the framework and never
\* reaches create_tenant.
TenantCreateAccepts(tid) ==
    /\ Len(tid) >= 1
    /\ Len(tid) <= MaxTenantIdLen
    /\ \A i \in 1..Len(tid) : tid[i] \in AsciiLetters \cup AsciiDigits \cup {"_"}

\* Bodies of POST requests and path parameters of DELETE requests.
TenantBodies == {<<"a">>, <<"_">>, <<"-">>}
DeleteIds == {<<"a">>, <<"-">>}
TenantRoutes == {TenantsPath} \cup {TenantItemPath(tid) : tid \in DeleteIds}

\* What every tenant endpoint leaves alone.
endpointFrame ==
    <<reqInputs, ctx, hctx, err, sessVars, stmts, callVars, layerVars, accountVars>>

\* create_tenant: 201 with the tenant_id when create_tenant_schema returns,
\* HTTPException(500) when it raises anything.
CreateTenant(r) ==
    /\ pc[r] = "handler"
    /\ path[r] = TenantsPath
    /\ \E tid \in TenantBodies :
        /\ TenantCreateAccepts(tid)
        /\ CreateTenantSchema(tid)
        /\ admin' = Outcome("create", tid, FALSE, CreateRaises(tid), {})
        /\ status' = [status EXCEPT ![r] =
                        IF CreateRaises(tid) = "none"
                        THEN {HTTP_201_CREATED}
                        ELSE {HTTP_500_INTERNAL_SERVER_ERROR}]
    /\ pc' = [pc EXCEPT ![r] = "finally"]
    /\ UNCHANGED endpointFrame

\* create_tenant when the engine fails a statement of create_tenant_schema.
CreateTenantFails(r) ==
    /\ pc[r] = "handler"
    /\ path[r] = TenantsPath
    /\ \E tid \in TenantBodies :
        /\ TenantCreateAccepts(tid)
        /\ CreateTenantSchemaFails(tid)
        /\ admin' = Outcome("create", tid, FALSE, "StorageEngineError", {})
    /\ status' = [status EXCEPT ![r] = {HTTP_500_INTERNAL_SERVER_ERROR}]
    /\ pc' = [pc EXCEPT ![r] = "finally"]
    /\ UNCHANGED endpointFrame

\* delete_tenant: drop_tenant_schema(tenant_id, cascade=True) with the path
\* parameter as it came; 200 when it returns, HTTPException(500) when it
\* raises.
DeleteTenant(r) ==
    /\ pc[r] = "handler"
    /\ path[r] # TenantsPath
    /\ StartsWith(path[r], TenantsPath)
    /\ LET tid == PathParam(path[r]) IN
        /\ DropTenantSchema(tid, TRUE)
        /\ admin' = Outcome("drop", tid, TRUE, DropRaises(tid, TRUE), {})
        /\ status' = [status EXCEPT ![r] =
                        IF DropRaises(tid, TRUE) = "none"
                        THEN {HTTP_200_OK}
                        ELSE {HTTP_500_INTERNAL_SERVER_ERROR}]
    /\ pc' = [pc EXCEPT ![r] = "finally"]
    /\ UNCHANGED endpointFrame

\* list_tenants: 200 with what list_tenant_schemas returns.
ListTenants(r) ==
    /\ pc[r] = "handler"
    /\ path[r] = TenantsPath
    /\ ListTenantSchemas
    /\ admin' = Outcome("list", None, FALSE, "none", ListResult)
    /\ status' = [status EXCEPT ![r] = {HTTP_200_OK}]
    /\ pc' = [pc EXCEPT ![r] = "finally"]
    /\ UNCHANGED endpointFrame

\* Requests to the tenant routes, with the tenant header absent, empty or
\* well-formed.
InitTenants ==
    /\ InitState
    /\ pc = [r \in Req |-> "new"]
    /\ path \in [Req -> TenantRoutes]
    /\ hdr \in [Req -> FewOpt]
    /\ qry = [r \in Req |-> None]

NextTenants ==
    \/ \E r \in Req : Dispatch(r)
    \/ \E r \in Req : DispatchFinally(r)
    \/ \E r \in Req : CreateTenant(r)
    \/ \E r \in Req : CreateTenantFails(r)
    \/ \E r \in Req : DeleteTenant(r)
    \/ \E r \in Req : ListTenants(r)

\* ------------------------------------------------------- the middleware stack
\* create_application adds the middlewares in this order.
CORSMiddleware == "CORSMiddleware"
SecurityHeadersMiddleware == "SecurityHeadersMiddleware"
LoggingMiddleware == "LoggingMiddleware"
TenantMiddleware == "TenantMiddleware"

\* A framework that appends a middleware to the stack.
AddMiddlewareLast(stack, m) == Append(stack, m)

\* application.add_middleware(m): the framework inserts m at the front of
\* user_middleware, and the first entry of that list wraps all the others.
AddMiddleware(stack, m) == <<m>> \o stack

UserMiddleware ==
    AddMiddleware(
        AddMiddleware(
            AddMiddleware(
                AddMiddleware(<<>>, CORSMiddleware),
                SecurityHeadersMiddleware),
            LoggingMiddleware),
        TenantMiddleware)

Position(m) == CHOOSE i \in 1..Len(UserMiddleware) : UserMiddleware[i] = m
Wraps(outer, inner) == Position(outer) < Position(inner)
InnerLayers == {CORSMiddleware, SecurityHeadersMiddleware, LoggingMiddleware}

\* The request reaches middleware m: every middleware that wraps m has called
\* call_next. LoggingMiddleware opens its span and SecurityHeadersMiddleware
\* awaits call_next at once; neither touches the tenant context.
LayerEnter(r, m) ==
    /\ m \in InnerLayers \ started[r]
    /\ \A o \in InnerLayers : Wraps(o, m) => o \in started[r]
    /\ pc[r] = IF Wraps(TenantMiddleware, m) THEN "handler" ELSE "new"
    /\ started' = [started EXCEPT ![r] = @ \cup {m}]
    /\ UNCHANGED <<reqInputs, reqVars, sessVars, poolVars, catalogVars, stmts, callVars,
                   admin, returned, accountVars>>

\* Middleware m hands the outcome of call_next to its caller: the response
\* (SecurityHeadersMiddleware adds headers, LoggingMiddleware logs it) or the
\* exception (LoggingMiddleware logs and re-raises). Status and exception are
\* passed on as they are.
LayerReturn(r, m) ==
    /\ m \in started[r] \ returned[r]
    /\ \A i \in started[r] : Wraps(m, i) => i \in returned[r]
    /\ IF Wraps(TenantMiddleware, m)
       THEN pc[r] = "finally"
       ELSE pc[r] \in {"done", "rejected"}
    /\ returned' = [returned EXCEPT ![r] = @ \cup {m}]
    /\ UNCHANGED <<reqInputs, reqVars, sessVars, poolVars, catalogVars, stmts, callVars,
                   admin, started, accountVars>>

\* TenantMiddleware.dispatch runs when the middlewares that wrap it have
\* passed the request on, and its finally clause when call_next is over.
TenantTurn(r) == \A o \in InnerLayers : Wraps(o, TenantMiddleware) => o \in started[r]
CallNextOver(r) ==
    \A i \in started[r] : Wraps(TenantMiddleware, i) => i \in returned[r]

\* The route handler runs when every middleware has passed the request on.
RouteTurn(r) == started[r] = InnerLayers

NextStack ==
    \/ \E r \in Req : TenantTurn(r) /\ Dispatch(r)
    \/ \E r \in Req, m \in InnerLayers : LayerEnter(r, m)
    \/ \E r \in Req : RouteTurn(r) /\ GetDbMissingTenant(r)
    \/ \E r \in Req : RouteTurn(r) /\ GetDbBind(r)
    \/ \E r \in Req : RouteTurn(r) /\ HandlerEnd(r)
    \/ \E r \in Req, m \in InnerLayers : LayerReturn(r, m)
    \/ \E r \in Req : CallNextOver(r) /\ DispatchFinally(r)

\* ---------------------------------------------------------------------- Next
Next ==
    \/ \E r \in Req : Dispatch(r)
    \/ \E r \in Req : DispatchFinally(r)
    \/ \E r \in Req : GetDbMissingTenant(r)
    \/ \E r \in Req : GetDbBind(r)
    \/ \E r \in Req : GetDbBindFails(r)
    \/ \E r \in Req : Execute(r)
    \/ \E r \in Req : Commit(r)
    \/ \E r \in Req : HandlerEnd(r)
    \/ \E tid \in AdminIds : CreateTenantSchema(tid) /\ UNCHANGED <<requestVars, admin>>

\* The administration functions called one after the other, no request in
\* flight.
InitAdmin ==
    /\ InitState
    /\ pc = [r \in Req |-> "absent"]
    /\ path = [r \in Req |-> HealthPath]
    /\ hdr = [r \in Req |-> None]
    /\ qry = [r \in Req |-> None]

NextAdmin ==
    \/ \E tid \in CatalogIds : AdminCreate(tid)
    \/ \E tid \in CatalogIds : AdminCreateFails(tid)
    \/ \E tid \in CatalogIds, cascade \in BOOLEAN : AdminDrop(tid, cascade)
    \/ AdminList

Spec == Init /\ [][Next]_vars
SpecWide == InitWide /\ [][Next]_vars
SpecPaths == InitPaths /\ [][Next]_vars
SpecAdmin == InitAdmin /\ [][NextAdmin]_vars
SpecTenants == InitTenants /\ [][NextTenants]_vars
SpecStack == InitPaths /\ [][NextStack]_vars

\* The administration functions against a database that already holds tenant
\* namespaces, some of them with the table set in them (a database
\* provisioned before this process started, for instance by migrations run
\* per namespace).
ProvisionedNamespaces == {NamespaceOf(<<"a">>), NamespaceOf(<<"b">>)}
InitCatalog ==
    /\ InitRuntime
    /\ pc = [r \in Req |-> "absent"]
    /\ path = [r \in Req |-> HealthPath]
    /\ hdr = [r \in Req |-> None]
    /\ qry = [r \in Req |-> None]
    /\ schemata \in SUBSET ProvisionedNamespaces
    /\ \E populated \in SUBSET schemata : tables = {Public} \cup populated

SpecCatalog == InitCatalog /\ [][NextAdmin]_vars

\* ------------------------------------------------------- AccountRepository
\* The rows an unqualified `account` reaches through the session of request r.
Object(row) == [id |-> row.id, email |-> row.email, owner |-> row.owner]
RowsIn(ns) == {row \in rows : row.ns = ns}
SessionNs(r) == Resolve(connPath[sessConn[r]])
FirstOf(found) == IF found = {} THEN NoAccount ELSE Object(CHOOSE row \in found : TRUE)

\* A repository call is made by a handler whose session holds its connection.
RepositoryCall(r) ==
    /\ pc[r] = "handler"
    /\ sess[r] = "open"
    /\ sessConn[r] # 0
    /\ got[r] = NotCalled

\* A lookup: cached = await cache_manager.get(key); if cached: return
\* Account(**cached); otherwise the row is read through the session and, when
\* there is one, stored under the key.
Lookup(r, key, found) ==
    /\ RepositoryCall(r)
    /\ IF cache[key] # NoAccount
       THEN /\ got' = [got EXCEPT ![r] = Returned(cache[key])]
            /\ UNCHANGED <<cache, stmts>>
       ELSE /\ got' = [got EXCEPT ![r] = Returned(FirstOf(found))]
            /\ cache' = IF found = {} THEN cache
                        ELSE [cache EXCEPT ![key] = FirstOf(found)]
            /\ stmts' = {[req |-> r, sp |-> connPath[sessConn[r]], ns |-> SessionNs(r)]}
    /\ UNCHANGED <<reqInputs, reqVars, sessVars, poolVars, catalogVars, callVars, admin,
                   layerVars, rows>>

\* AccountRepository.get
AccountGet(r, id) ==
    Lookup(r, KeyOfId(id), {row \in RowsIn(SessionNs(r)) : row.id = id})

\* AccountRepository.get_by_email
AccountGetByEmail(r, email) ==
    Lookup(r, KeyOfEmail(email), {row \in RowsIn(SessionNs(r)) : row.email = email})

\* AccountRepository.create: db.add and db.commit insert the row (email is
\* unique within a table) and release the connection; db.refresh takes the
\* connection at the head of the pool's queue and reads the row with the new
\* primary key back through it; the object is then stored under both keys.
AccountCreate(r, email) ==
    /\ RepositoryCall(r)
    /\ Cardinality(RowsIn(SessionNs(r))) < MaxAccounts
    /\ LET c == sessConn[r]
           ns == SessionNs(r)
           new == [ns |-> ns, id |-> Cardinality(RowsIn(ns)) + 1, email |-> email,
                   owner |-> sessTenant[r]]
           queue == Append(idle, c)
           c2 == Head(queue)
           ns2 == Resolve(connPath[c2])
           read == {row \in rows \cup {new} : row.ns = ns2 /\ row.id = new.id} IN
        IF \E row \in RowsIn(ns) : row.email = email
        THEN /\ got' = [got EXCEPT ![r] = Raised]
             /\ UNCHANGED <<rows, cache, stmts, sessConn, txnBase, idle>>
        ELSE /\ rows' = rows \cup {new}
             /\ idle' = Tail(queue)
             /\ sessConn' = [sessConn EXCEPT ![r] = c2]
             /\ txnBase' = [txnBase EXCEPT ![r] = connPath[c2]]
             /\ stmts' = {[req |-> r, sp |-> connPath[c2], ns |-> ns2]}
             /\ IF read = {}
                THEN /\ got' = [got EXCEPT ![r] = Raised]
                     /\ UNCHANGED cache
                ELSE /\ got' = [got EXCEPT ![r] = Returned(FirstOf(read))]
                     /\ cache' = [cache EXCEPT ![KeyOfId(FirstOf(read).id)] = FirstOf(read),
                                               ![KeyOfEmail(FirstOf(read).email)] = FirstOf(read)]
    /\ UNCHANGED <<reqInputs, reqVars, sess, sessTenant, connPath, created, catalogVars,
                   callVars, admin, layerVars>>

\* Two account requests, each of tenant a or b, against a database in which
\* both tenant namespaces exist, with or without the table set in them.
AccountTenants == {<<"a">>, <<"b">>}
InitAccounts ==
    /\ InitRuntime
    /\ pc = [r \in Req |-> "new"]
    /\ path = [r \in Req |-> AccountPath]
    /\ hdr \in [Req -> AccountTenants]
    /\ qry = [r \in Req |-> None]
    /\ schemata = ProvisionedNamespaces
    /\ tables \in {{Public}, {Public} \cup ProvisionedNamespaces}

NextAccounts ==
    \/ \E r \in Req : Dispatch(r)
    \/ \E r \in Req : GetDbBind(r)
    \/ \E r \in Req, id \in AccountIds : AccountGet(r, id)
    \/ \E r \in Req, email \in Emails : AccountGetByEmail(r, email)
    \/ \E r \in Req, email \in Emails : AccountCreate(r, email)
    \/ \E r \in Req : HandlerEnd(r)
    \/ \E r \in Req : DispatchFinally(r)

SpecAccounts == InitAccounts /\ [][NextAccounts]_vars


\* ==================================================================== claims
\* The identifier a request supplies, and whether the middleware let it reach
\* the downstream handler.
Supplied(r) == TenantIdOf(hdr[r], qry[r])
Arrived(r) == pc[r] \notin {"absent", "new"}
Tenanted(r) == ~IsExcluded(path[r])
Downstream(r) == pc[r] \in {"handler", "finally"}

\* ^[A-Za-z0-9_]{1,50}$
WordChars == AsciiLetters \cup AsciiDigits \cup {"_"}
MatchesIdentifierPattern(s) ==
    /\ s # None
    /\ Len(s) \in 1..MaxTenantIdLen
    /\ \A i \in 1..Len(s) : s[i] \in WordChars

Is4xx(st) == \E code \in st : code >= 400 /\ code <= 499

\* C1: while two requests accepted with different tenant identifiers are in
\* flight, every read of the tenant context inside a request's execution,
\* between its set and its clear, yields that request's own identifier.
C1_ContextIsolation ==
    \A r \in Req :
        (Tenanted(r) /\ Downstream(r)) =>
            /\ CtxGet(ctx, r) = Supplied(r)
            /\ CtxGet(hctx, r) = Supplied(r)

C1_Witness ==
    \E r1, r2 \in Req :
        /\ r1 # r2
        /\ Tenanted(r1) /\ Tenanted(r2)
        /\ pc[r1] = "handler" /\ Downstream(r2)
        /\ sess[r1] = "open"
        /\ Supplied(r1) # Supplied(r2)

\* C2: once dispatch has finished for a request that set the tenant context,
\* whether the handler returned, answered an error, raised or was cancelled,
\* the context of that request reads None.
C2_ContextClearedAfterDispatch ==
    \A r \in Req :
        (Tenanted(r) /\ pc[r] = "done") => CtxGet(ctx, r) = None

C2_Witness ==
    \E r1, r2 \in Req :
        /\ Tenanted(r1) /\ pc[r1] = "done" /\ err[r1] = "Cancelled"
        /\ Tenanted(r2) /\ pc[r2] = "done" /\ err[r2] = "HandlerError"

C4_WellFormedAccepted ==
    \A r \in Req :
        (Arrived(r) /\ Tenanted(r) /\ MatchesIdentifierPattern(Supplied(r))) =>
            /\ pc[r] # "rejected"
            /\ Downstream(r) => CtxGet(hctx, r) = Supplied(r)

\* C5: a supplied identifier with a character outside [A-Za-z0-9_] is
\* answered 400, without the downstream handler and without setting the
\* tenant context.
C5_ForeignCharRejected ==
    \A r \in Req :
        (/\ Arrived(r) /\ Tenanted(r) /\ ~Falsy(Supplied(r))
         /\ \E i \in 1..Len(Supplied(r)) : Supplied(r)[i] \notin WordChars) =>
            /\ pc[r] = "rejected"
            /\ status[r] = {HTTP_400_BAD_REQUEST}
            /\ CtxGet(ctx, r) = None

\* C6: a supplied identifier longer than 50 characters is answered 400; no
\* identifier longer than 50 characters is stored in the tenant context or
\* used by get_db to name a namespace.
C6_LongIdRejected ==
    \A r \in Req :
        /\ (/\ Arrived(r) /\ Tenanted(r) /\ Supplied(r) # None
            /\ Len(Supplied(r)) > MaxTenantIdLen) =>
                (pc[r] = "rejected" /\ status[r] = {HTTP_400_BAD_REQUEST})
        /\ CtxGet(ctx, r) # None => Len(CtxGet(ctx, r)) <= MaxTenantIdLen
        /\ sessTenant[r] # None => Len(sessTenant[r]) <= MaxTenantIdLen

\* C7: get_db called while the tenant context is unset fails with the
\* missing-tenant error before a session or a pool connection is opened; a
\* request without a tenant never has a session, a connection or a statement.
C7_GetDbFailsFastWithoutTenant ==
    \A r \in Req :
        /\ CtxGet(hctx, r) = None =>
            /\ sess[r] = "none"
            /\ sessConn[r] = 0
            /\ \A s \in stmts : s.req # r
        /\ err[r] = "ValueError" => (CtxGet(hctx, r) = None /\ sess[r] = "none")

C7_Witness ==
    \E r \in Req :
        /\ err[r] = "ValueError"
        /\ CtxGet(hctx, r) = None
        /\ sess[r] = "none"
        /\ created = 0

\* C8: for a well-formed identifier whose namespace does not exist, the bind
\* step of get_db fails with a storage-engine error, the request is answered
\* with a 4xx status, and no statement of it runs against public.
C8_MissingNamespaceFailsBind ==
    \A r \in Req :
        (sess[r] # "none" /\ NamespaceOf(sessTenant[r]) \notin schemata) =>
            /\ err[r] = "StorageEngineError"
            /\ pc[r] = "done" => Is4xx(status[r])
            /\ \A s \in stmts : s.req = r => s.ns # Public

\* C9: every statement run through a get_db session runs with the search_path
\* of the tenant that was active when the session was created, also after a
\* commit, and never with one left on the pooled connection by another use.
C9_SessionBindingStable ==
    \A s \in stmts : s.sp = TenantPath(sessTenant[s.req])

\* C10: the namespace used for an accepted identifier is exactly "tenant_"
\* followed by the identifier, and two distinct accepted identifiers never
\* resolve to the same namespace.
C10_NamespaceInjective ==
    /\ \A r \in Req :
        sess[r] # "none" => NamespaceOf(sessTenant[r]) = SchemaName(sessTenant[r])
    /\ \A r1, r2 \in Req :
        (sess[r1] # "none" /\ sess[r2] # "none" /\ sessTenant[r1] # sessTenant[r2]) =>
            NamespaceOf(sessTenant[r1]) # NamespaceOf(sessTenant[r2])

\* A step in which get_db opens the session of request r, and one in which
\* the session of request r takes a connection from the pool.
OpensSession(r) == sess[r] = "none" /\ sess'[r] # "none"
TakesConnection(r) == sessConn[r] = 0 /\ sessConn'[r] # 0

\* C11: within one request, get_db acquires a session (and the session a
\* connection) only after dispatch has set the tenant context and before
\* dispatch has cleared it; once the context is cleared nothing is acquired.
C11_AcquireBetweenSetAndClear ==
    [][\A r \in Req :
          /\ (OpensSession(r) \/ TakesConnection(r)) =>
                (setCalls[r] = 1 /\ clearCalls[r] = 0 /\ clearCalls'[r] = 0)
          /\ clearCalls'[r] > clearCalls[r] => (sess[r] # "open" /\ sessConn[r] = 0)]_vars

C11_Witness ==
    \E r \in Req :
        /\ pc[r] = "done"
        /\ sess[r] = "closed"
        /\ err[r] = "none"
        /\ setCalls[r] = 1
        /\ clearCalls[r] = 1

\* C12: a session opened by get_db is closed and its connection is back in
\* the pool, once, when the handler has ended - by a response, an exception,
\* a failed bind or a cancellation; when every request has finished, every
\* connection the pool created is idle.
AllFinished == \A r \in Req : pc[r] \in {"absent", "rejected", "done"}
C13_SetOnceClearOnce ==
    \A r \in Req :
        /\ (Tenanted(r) /\ Downstream(r)) => (setCalls[r] = 1 /\ clearCalls[r] = 0)
        /\ (Tenanted(r) /\ pc[r] = "done") => (setCalls[r] = 1 /\ clearCalls[r] = 1)
        /\ pc[r] \in {"new", "rejected"} => (setCalls[r] = 0 /\ clearCalls[r] = 0)

C13_Witness ==
    \E r \in Req :
        /\ Tenanted(r)
        /\ pc[r] = "done"
        /\ err[r] = "HandlerError"
        /\ setCalls[r] = 1
        /\ clearCalls[r] = 1

\* C14 (as stated): a request accepted with an x-tenant-id header has the
\* tenant context set to the header's value, whatever the tenantId query
\* parameter is; the query value is used only when there is no header.
C14_HeaderAlwaysWins ==
    \A r \in Req :
        (Tenanted(r) /\ Downstream(r) /\ hdr[r] # None) => CtxGet(ctx, r) = hdr[r]

\* C14 (amended): a request accepted with a non-empty x-tenant-id header has
\* the tenant context set to the header's value, whatever the query
\* parameter is; the query value is used only when the header is absent or
\* empty.
C14_NonEmptyHeaderWins ==
    \A r \in Req :
        (Tenanted(r) /\ Downstream(r)) =>
            /\ ~Falsy(hdr[r]) => CtxGet(ctx, r) = hdr[r]
            /\ CtxGet(ctx, r) # hdr[r] => (Falsy(hdr[r]) /\ CtxGet(ctx, r) = qry[r])

C14_Witness ==
    \E r \in Req :
        /\ Tenanted(r) /\ Downstream(r)
        /\ ~Falsy(hdr[r]) /\ ~Falsy(qry[r])
        /\ hdr[r] # qry[r]
        /\ IsValidTenantFormat(qry[r])
        /\ CtxGet(ctx, r) = hdr[r]
        /\ CtxGet(hctx, r) = hdr[r]

\* The downstream handler's own response statuses.
HandlerStatuses == UNION {end.st : end \in Endings}

\* C15: a request whose path starts with an allow-listed prefix reaches the
\* downstream handler with or without a tenant identifier; dispatch never
\* answers it 400, and when the handler returns a response that response is
\* the request's response.
C15_AllowListedPassThrough ==
    \A r \in Req :
        (Arrived(r) /\ \E prefix \in EXCLUDED_PATHS : StartsWith(path[r], prefix)) =>
            /\ pc[r] # "rejected"
            /\ HTTP_400_BAD_REQUEST \notin status[r]
            /\ (pc[r] = "done" /\ err[r] = "none") =>
                    (status[r] # {} /\ status[r] \subseteq HandlerStatuses)

C15_Witness ==
    \E r \in Req :
        /\ path[r] = DocsRedirectPath
        /\ Falsy(hdr[r]) /\ Falsy(qry[r])
        /\ pc[r] = "done"
        /\ status[r] = {HTTP_200_OK}

\* C16: a request to the openapi, docs or redoc URL that create_application
\* configures is passed to the downstream handler without a tenant
\* identifier and is never answered 400 by dispatch.
C16_ServedDocsExempt ==
    \A r \in Req :
        (Arrived(r) /\ path[r] \in ServedDocsUrls) =>
            /\ pc[r] # "rejected"
            /\ HTTP_400_BAD_REQUEST \notin status[r]

\* C17: a request to "/" with neither the header nor the query parameter is
\* answered 200 (with the welcome message), so it is never rejected and its
\* response, once there is one, is 200.
C17_RootWelcome ==
    \A r \in Req :
        (Arrived(r) /\ path[r] = RootPath /\ hdr[r] = None /\ qry[r] = None) =>
            /\ pc[r] # "rejected"
            /\ pc[r] = "done" => status[r] = {HTTP_200_OK}

\* C18: when create_tenant_schema(id) has been called twice in a row for a
\* well-formed id, neither call raised, exactly one namespace named
\* tenant_<id> exists and it holds the application table set.
C18_CreateTwiceIdempotent ==
    (/\ admin.op = "create" /\ admin.prevOp = "create"
     /\ admin.prevTid = admin.tid
     /\ IsValidTenantFormat(admin.tid)) =>
        /\ admin.prevRaised = "none"
        /\ admin.raised = "none"
        /\ Cardinality({ns \in CatalogNamespaces : ns = SchemaName(admin.tid)}) = 1
        /\ SchemaName(admin.tid) \in tables

\* C19: list_tenant_schemas() called right after create_tenant_schema(id)
\* returned, id well-formed, contains id; called right after
\* drop_tenant_schema(id) returned, it does not contain id.
C19_ListFollowsCreateAndDrop ==
    (admin.op = "list" /\ admin.prevRaised = "none") =>
        /\ admin.prevOp = "create" => admin.prevTid \in admin.result
        /\ admin.prevOp = "drop" => admin.prevTid \notin admin.result

\* The identifiers the catalog stands for: each namespace whose name begins
\* with "tenant_", without that leading prefix.
LeadingPrefixStripped ==
    {SubSeq(ns, Len(TenantPrefix) + 1, Len(ns)) :
        ns \in {n \in CatalogNamespaces : StartsWith(n, TenantPrefix)}}

\* C20: whatever the catalog holds, list_tenant_schemas() returns exactly the
\* names that begin with "tenant_", each without that leading prefix, and
\* nothing else.
C20_ListStripsLeadingPrefix ==
    admin.op = "list" => admin.result = LeadingPrefixStripped

\* A character that is neither a letter, nor a digit, nor the underscore.
AlnumChars == AsciiLetters \cup AsciiDigits \cup UnicodeLetters
HasForeignChar(tid) == \E i \in 1..Len(tid) : tid[i] \notin AlnumChars \cup {"_"}

C22_CascadeRemovesRestrictRefuses ==
    [][(admin'.op = "drop" /\ IsValidTenantFormat(admin'.tid)) =>
          /\ admin'.cascade =>
                /\ admin'.raised = "none"
                /\ \A ns \in {NamespaceOf(admin'.tid), SchemaName(admin'.tid)} :
                      ns \notin schemata' /\ ns \notin tables'
          /\ (/\ ~admin'.cascade
              /\ NamespaceOf(admin'.tid) \in schemata
              /\ NamespaceOf(admin'.tid) \in tables) =>
                /\ admin'.raised = "StorageEngineError"
                /\ UNCHANGED catalogVars]_vars

C22_Witness ==
    /\ admin.op = "drop" /\ admin.cascade /\ admin.raised = "none"
    /\ admin.prevOp = "drop" /\ admin.prevTid = admin.tid
    /\ admin.prevRaised = "StorageEngineError"
    /\ NamespaceOf(admin.tid) \notin schemata
    /\ NamespaceOf(admin.tid) \notin tables

\* C23: a create_tenant_schema or drop_tenant_schema call for one identifier
\* changes neither the existence nor the contents of the namespace tenant_<a>
\* of any other well-formed identifier a.
C23_OtherTenantUntouched ==
    [][admin'.op \in {"create", "drop"} =>
          \A a \in CatalogIds :
              (IsValidTenantFormat(a) /\ a # admin'.tid) =>
                  /\ SchemaName(a) \in schemata' <=> SchemaName(a) \in schemata
                  /\ SchemaName(a) \in tables' <=> SchemaName(a) \in tables]_vars

\* C28: a create_tenant_schema call that the engine fails raises the engine
\* error to its caller and leaves the catalog and the tables as they were
\* before the call: the namespace exists afterwards only if it existed
\* before, and no namespace is left without what the call was to put in it.
C28_CreateIsAtomic ==
    [][(admin'.op = "create" /\ admin'.raised # "none") =>
          /\ UNCHANGED catalogVars
          /\ NamespaceOf(admin'.tid) \in schemata' => NamespaceOf(admin'.tid) \in schemata]_vars

C28_Witness ==
    /\ admin.op = "create"
    /\ admin.raised = "StorageEngineError"
    /\ IsValidTenantFormat(admin.tid)
    /\ NamespaceOf(admin.tid) \notin schemata
    /\ created > 0

\* A step in which the endpoint serving request r returns.
EndpointReturns(r) == pc[r] = "handler" /\ pc'[r] = "finally"

\* C24: when create_tenant has served a POST whose body tenant_id has 1 to 50
\* alphanumeric or underscore characters, the answer is 500 only if the
\* engine failed, 201 whenever the engine did not fail, and 201 only if the
\* namespace of that tenant_id exists.
C24_CreateEndpointStatus ==
    [][\A r \in Req :
          (/\ EndpointReturns(r)
           /\ path[r] = TenantsPath
           /\ admin'.op = "create"
           /\ MatchesIdentifierPattern(admin'.tid)) =>
              /\ status'[r] = {HTTP_500_INTERNAL_SERVER_ERROR} =>
                    admin'.raised = "StorageEngineError"
              /\ admin'.raised # "StorageEngineError" => status'[r] = {HTTP_201_CREATED}
              /\ status'[r] = {HTTP_201_CREATED} =>
                    NamespaceOf(admin'.tid) \in schemata']_vars

\* C26: the tenant routes are not allow-listed; a request to one of them
\* with neither header nor query parameter is answered 400 by dispatch, and
\* every administration call, and every change of the catalog, is made in
\* the endpoint step of a request that supplied a tenant identifier.
TenantRouteNeedsTenant ==
    \A r \in Req :
        path[r] \in TenantRoutes =>
            /\ ~\E prefix \in EXCLUDED_PATHS : StartsWith(path[r], prefix)
            /\ (Arrived(r) /\ Falsy(hdr[r]) /\ Falsy(qry[r])) =>
                    (pc[r] = "rejected" /\ status[r] = {HTTP_400_BAD_REQUEST})
CallsOnlyFromAccepted ==
    (admin' # admin \/ schemata' # schemata \/ tables' # tables) =>
        \E r \in Req : EndpointReturns(r) /\ ~Falsy(Supplied(r))
C26_TenantRoutesNeedTenant ==
    []TenantRouteNeedsTenant /\ [][CallsOnlyFromAccepted]_vars

C26_Witness ==
    \E r1, r2 \in Req :
        /\ path[r1] = TenantsPath /\ hdr[r1] = None /\ qry[r1] = None
        /\ pc[r1] = "rejected"
        /\ path[r2] # TenantsPath /\ hdr[r2] = None
        /\ pc[r2] = "rejected"
        /\ admin = NoCall
        /\ schemata = {}

\* C29: a delete_tenant step for a well-formed identifier whose namespace is
\* not in the catalog raises nothing, leaves catalog and tables unchanged and
\* answers 200 - so also for the second of two drops in a row.
C29_DropMissingIsNoOp ==
    [][\A r \in Req :
          (/\ EndpointReturns(r)
           /\ admin'.op = "drop"
           /\ IsValidTenantFormat(admin'.tid)
           /\ NamespaceOf(admin'.tid) \notin schemata) =>
              /\ admin'.raised = "none"
              /\ UNCHANGED catalogVars
              /\ status'[r] = {HTTP_200_OK}]_vars

C29_Witness ==
    \E r \in Req :
        /\ pc[r] = "done"
        /\ status[r] = {HTTP_200_OK}
        /\ admin.op = "drop" /\ admin.raised = "none"
        /\ admin.prevOp = "drop" /\ admin.prevTid = admin.tid /\ admin.prevRaised = "none"
        /\ NamespaceOf(admin.tid) \notin schemata

\* C27: on a path that starts with an allow-listed prefix dispatch never sets
\* the tenant context, whatever header or query parameter the request
\* carries: the context the handler sees is unset, so every get_db call made
\* for the request ends in the missing-tenant error and no session or
\* connection is ever opened for it.
OnAllowListedPath(r) == \E prefix \in EXCLUDED_PATHS : StartsWith(path[r], prefix)

C27_AllowListedNeverTenanted ==
    \A r \in Req :
        (Arrived(r) /\ OnAllowListedPath(r)) =>
            /\ setCalls[r] = 0
            /\ CtxGet(ctx, r) = None
            /\ CtxGet(hctx, r) = None
            /\ sess[r] = "none"
            /\ sessConn[r] = 0
            /\ \A s \in stmts : s.req # r
            /\ err[r] # "StorageEngineError"

C27_Witness ==
    \E r \in Req :
        /\ OnAllowListedPath(r)
        /\ IsValidTenantFormat(hdr[r])
        /\ IsValidTenantFormat(qry[r])
        /\ pc[r] = "done"
        /\ err[r] = "ValueError"
        /\ setCalls[r] = 0

\* C30: TenantMiddleware wraps every other middleware. A request it answers
\* 400 reaches no inner middleware and no route handler; for a request it
\* accepts on a tenant-scoped path, every inner middleware starts after the
\* tenant context was set and before it is cleared, and the context is
\* cleared only when every inner middleware has handed its outcome back.
LayerStarts(r, m) == m \notin started[r] /\ m \in started'[r]
LayerReturns(r, m) == m \notin returned[r] /\ m \in returned'[r]
RejectedUntouched ==
    \A r \in Req :
        pc[r] = "rejected" =>
            /\ status[r] = {HTTP_400_BAD_REQUEST}
            /\ started[r] = {}
            /\ sess[r] = "none"
            /\ err[r] = "none"

ContextSpansInnerLayers ==
    \A r \in Req :
        /\ \A m \in InnerLayers :
            /\ LayerStarts(r, m) =>
                /\ pc[r] = "handler"
                /\ ~OnAllowListedPath(r) =>
                    /\ setCalls[r] = 1
                    /\ clearCalls[r] = 0
                    /\ CtxGet(ctx, r) = Supplied(r)
            /\ LayerReturns(r, m) =>
                /\ clearCalls[r] = 0
                /\ ~OnAllowListedPath(r) => CtxGet(ctx, r) = Supplied(r)
        /\ clearCalls'[r] # clearCalls[r] => returned[r] = InnerLayers
        /\ (pc[r] = "handler" /\ pc'[r] = "finally") =>
                (started[r] = InnerLayers /\ returned[r] = {})

C30_TenantMiddlewareOutermost == []RejectedUntouched /\ [][ContextSpansInnerLayers]_vars

C30_Witness ==
    \E r \in Req :
        /\ ~OnAllowListedPath(r)
        /\ pc[r] = "done"
        /\ started[r] = InnerLayers
        /\ returned[r] = InnerLayers
        /\ setCalls[r] = 1
        /\ clearCalls[r] = 1

\* C25: whatever requests of another tenant created, updated or read, an
\* account lookup by id or by email made in a request of tenant B returns
\* None or an account that was created by a request of tenant B.
C25_LookupStaysInTenant ==
    \A r \in Req :
        got[r].kind = "account" => got[r].acct.owner = sessTenant[r]

====
